---- MODULE Spec2Model ----
(***************************************************************************)
(* A model of file-dougu: the dispatcher of lib.rs over the object-store   *)
(* (gcs), web and local-file backends, the retry wrapper the backends use, *)
(* the object-store address parser and the compression helpers.            *)
(*                                                                         *)
(* Strings are sequences of one-character strings; byte strings are        *)
(* sequences of byte tokens.                                               *)
(***************************************************************************)
EXTENDS Integers, Sequences, FiniteSets, TLC

VARIABLES
    store,      \* the object store: object key <<bucket, name>> -> stored bytes or Absent
    files,      \* the local file system: path -> stored bytes or Absent
    call,       \* the dispatcher call in flight (or the idle record)
    lastMut,    \* history: per object and local file, the last completed write/delete call
    probe       \* a pure function under test (a parser, decompress_opt): its input and output

vars == <<store, files, call, lastMut, probe>>

----------------------------------------------------------------------------
(* Bounds *)

\* longest identifier remainder (the part after the scheme prefix) the parser is tried on
MaxLen == 6
\* largest number of retries a retry policy of the model allows
MaxRetries == 2
\* number of objects the store puts on one page of a listing
PageSize == 1
\* longest byte string the codec helpers are tried on
MaxBytes == 4

----------------------------------------------------------------------------
(* Strings *)

Slash == "/"

StartsWith(s, p) == Len(s) >= Len(p) /\ SubSeq(s, 1, Len(p)) = p

EndsWith(s, p) == Len(s) >= Len(p) /\ SubSeq(s, Len(s) - Len(p) + 1, Len(s)) = p

DropLast(s) == SubSeq(s, 1, Len(s) - 1)

\* the sequences over alphabet A of length at most n
RECURSIVE SeqsUpTo(_, _)
SeqsUpTo(A, n) ==
    IF n = 0 THEN {<<>>}
    ELSE LET shorter == SeqsUpTo(A, n - 1)
         IN  shorter \cup {Append(s, a) : s \in shorter, a \in A}

GsPrefix == <<"g", "s", ":", "/", "/">>
HttpPrefix == <<"h", "t", "t", "p", ":", "/", "/">>
FtpPrefix == <<"f", "t", "p", ":", "/", "/">>

Letters == {"g", "s", "b", "n", "h", "t", "p", "f"}

\* the identifiers the parsers are tried on: a scheme prefix (or none) and a
\* remainder over bucket/name letters and the separator
Identifiers ==
    {p \o r : p \in {GsPrefix, HttpPrefix, FtpPrefix, <<>>},
              r \in SeqsUpTo({"b", "n", Slash}, MaxLen)}

----------------------------------------------------------------------------
(* Url::parse of the url crate, as far as the identifiers above exercise it *)

\* position of the ':' ending a leading scheme (letters only here), 0 if none
SchemeEnd(s) ==
    LET colons == {i \in 1..Len(s) : s[i] = ":"}
    IN  IF colons = {} THEN 0
        ELSE LET k == CHOOSE i \in colons : \A j \in colons : i <= j
             IN  IF k > 1 /\ \A j \in 1..(k - 1) : s[j] \in Letters THEN k ELSE 0

SpecialSchemes == {<<"h", "t", "t", "p">>, <<"f", "t", "p">>}

RECURSIVE StripSlashes(_)
StripSlashes(s) ==
    IF s # <<>> /\ Head(s) = Slash THEN StripSlashes(Tail(s)) ELSE s

\* the longest prefix of s without a separator
RECURSIVE UpToSlash(_)
UpToSlash(s) ==
    IF s = <<>> \/ Head(s) = Slash THEN <<>> ELSE <<Head(s)>> \o UpToSlash(Tail(s))

UrlErr == [ok |-> FALSE]

\* Url::parse(s): a relative reference has no base and fails; a special scheme
\* (http, ftp) skips the slashes before the host, needs a non-empty host and
\* gets the path "/" when it has none; any other scheme keeps its text.
UrlParse(s) ==
    LET k == SchemeEnd(s)
    IN  IF k = 0 THEN UrlErr
        ELSE LET scheme == SubSeq(s, 1, k - 1)
                 rest == SubSeq(s, k + 1, Len(s))
             IN  IF scheme \in SpecialSchemes
                 THEN LET r == StripSlashes(rest)
                          host == UpToSlash(r)
                          path == SubSeq(r, Len(host) + 1, Len(r))
                      IN  IF host = <<>> THEN UrlErr
                          ELSE [ok |-> TRUE,
                                scheme |-> scheme,
                                str |-> scheme \o <<":", Slash, Slash>> \o host
                                        \o (IF path = <<>> THEN <<Slash>> ELSE path)]
                 ELSE [ok |-> TRUE, scheme |-> scheme, str |-> s]

----------------------------------------------------------------------------
(* The object-store address parser (gcs/mod.rs) *)

\* GCS_BUCKET_RE = gs://(?P<bucket>[^/]*)/?(?P<name>.*) : the leftmost match
GcsBucketRe(u) ==
    LET starts == {i \in 1..Len(u) : StartsWith(SubSeq(u, i, Len(u)), GsPrefix)}
    IN  IF starts = {} THEN [matched |-> FALSE]
        ELSE LET i == CHOOSE m \in starts : \A j \in starts : m <= j
                 after == SubSeq(u, i + Len(GsPrefix), Len(u))
                 bucket == UpToSlash(after)
                 tail == SubSeq(after, Len(bucket) + 1, Len(after))
                 name == IF tail # <<>> THEN Tail(tail) ELSE <<>>
             IN  [matched |-> TRUE, bucket |-> bucket, name |-> name]

ParseErr(e) == [ok |-> FALSE, err |-> e]

\* GcsBucket::parse_bucket_and_name_from_url
GcsBucketParse(u) ==
    LET captured == GcsBucketRe(u)
    IN  IF ~captured.matched THEN ParseErr("GcsInvalidBucketPathError")
        ELSE LET b0 == captured.bucket
                 bucket == IF EndsWith(b0, <<Slash>>) THEN DropLast(b0) ELSE b0
             IN  IF bucket = <<>> THEN ParseErr("InvalidGcsUrl")
                 ELSE [ok |-> TRUE, bucket |-> bucket]

\* GcsBucket::new_with_url
GcsBucketNewWithUrl(u) ==
    IF ~StartsWith(u, GsPrefix) THEN ParseErr("GcsInvalidBucketPathError")
    ELSE GcsBucketParse(u)

\* GcsBucket::new
GcsBucketNew(s) ==
    LET url == UrlParse(s)
    IN  IF ~url.ok THEN ParseErr("UrlParseError") ELSE GcsBucketNewWithUrl(url.str)

\* the mutant of GcsFileParse that forgets the test on the name's first character
GcsFileParseNoSlashTest(u) ==
    LET captured == GcsBucketRe(u)
    IN  IF ~captured.matched THEN ParseErr("GcsInvalidBucketPathError")
        ELSE LET bucket == captured.bucket
                 name == captured.name
             IN  IF bucket = <<>> \/ name = <<>>
                 THEN ParseErr("InvalidGcsUrl")
                 ELSE IF EndsWith(name, <<Slash>>)
                      THEN [ok |-> TRUE, bucket |-> bucket, name |-> DropLast(name),
                            trailing_slash |-> TRUE]
                      ELSE [ok |-> TRUE, bucket |-> bucket, name |-> name,
                            trailing_slash |-> FALSE]

\* the mutant of GcsFileParse that forgets the test on the empty bucket
GcsFileParseNoBucketTest(u) ==
    LET captured == GcsBucketRe(u)
    IN  IF ~captured.matched THEN ParseErr("GcsInvalidBucketPathError")
        ELSE LET bucket == captured.bucket
                 name == captured.name
             IN  IF name = <<>> \/ StartsWith(name, <<Slash>>)
                 THEN ParseErr("InvalidGcsUrl")
                 ELSE IF EndsWith(name, <<Slash>>)
                      THEN [ok |-> TRUE, bucket |-> bucket, name |-> DropLast(name),
                            trailing_slash |-> TRUE]
                      ELSE [ok |-> TRUE, bucket |-> bucket, name |-> name,
                            trailing_slash |-> FALSE]

\* the mutant of GcsFileParse that forgets the test on the empty name
GcsFileParseNoNameTest(u) ==
    LET captured == GcsBucketRe(u)
    IN  IF ~captured.matched THEN ParseErr("GcsInvalidBucketPathError")
        ELSE LET bucket == captured.bucket
                 name == captured.name
             IN  IF bucket = <<>> \/ StartsWith(name, <<Slash>>)
                 THEN ParseErr("InvalidGcsUrl")
                 ELSE IF EndsWith(name, <<Slash>>)
                      THEN [ok |-> TRUE, bucket |-> bucket, name |-> DropLast(name),
                            trailing_slash |-> TRUE]
                      ELSE [ok |-> TRUE, bucket |-> bucket, name |-> name,
                            trailing_slash |-> FALSE]

\* the mutant of GcsFileParse that leaves the trailing separator on the name
GcsFileParseKeepSlash(u) ==
    LET captured == GcsBucketRe(u)
    IN  IF ~captured.matched THEN ParseErr("GcsInvalidBucketPathError")
        ELSE LET bucket == captured.bucket
                 name == captured.name
             IN  IF bucket = <<>> \/ name = <<>> \/ StartsWith(name, <<Slash>>)
                 THEN ParseErr("InvalidGcsUrl")
                 ELSE [ok |-> TRUE, bucket |-> bucket, name |-> name,
                       trailing_slash |-> EndsWith(name, <<Slash>>)]

\* GcsFile::parse_bucket_and_name_from_url
GcsFileParse(u) ==
    LET captured == GcsBucketRe(u)
    IN  IF ~captured.matched THEN ParseErr("GcsInvalidBucketPathError")
        ELSE LET bucket == captured.bucket
                 name == captured.name
             IN  IF bucket = <<>> \/ name = <<>> \/ StartsWith(name, <<Slash>>)
                 THEN ParseErr("InvalidGcsUrl")
                 ELSE IF EndsWith(name, <<Slash>>)
                      THEN [ok |-> TRUE, bucket |-> bucket, name |-> DropLast(name),
                            trailing_slash |-> TRUE]
                      ELSE [ok |-> TRUE, bucket |-> bucket, name |-> name,
                            trailing_slash |-> FALSE]

\* GcsFile::new_with_url
GcsFileNewWithUrl(u) ==
    IF ~StartsWith(u, GsPrefix) THEN ParseErr("GcsInvalidBucketPathError")
    ELSE GcsFileParse(u)

\* GcsFile::new
GcsFileNew(s) ==
    LET url == UrlParse(s)
    IN  IF ~url.ok THEN ParseErr("UrlParseError") ELSE GcsFileNewWithUrl(url.str)

\* the mutant of GcsFileDisplay that forgets the trailing separator of a prefix
GcsFileDisplayNoSlash(f) == GsPrefix \o f.bucket \o <<Slash>> \o f.name

\* impl fmt::Display for GcsFile
GcsFileDisplay(f) ==
    GsPrefix \o f.bucket \o <<Slash>> \o f.name
        \o (IF f.trailing_slash THEN <<Slash>> ELSE <<>>)

----------------------------------------------------------------------------
(* Backend selection, the if-let chain every operation of lib.rs opens with *)

\* the backend an identifier is dispatched to
SelectBackend(s) ==
    LET url == UrlParse(s)
    IN  IF url.ok
        THEN IF GcsFileNewWithUrl(url.str).ok THEN "gcs" ELSE "web"
        ELSE "fs"

----------------------------------------------------------------------------
(* Compression (compression/mod.rs) *)

None == [some |-> FALSE]
Some(x) == [some |-> TRUE, v |-> x]

NoCompression == "none"
Gzip == "gzip"
Compressions == {NoCompression, Gzip}

\* gzip::gzip_compress: the stream is the payload behind the gzip framing,
\* which the token "GZ" stands for
GzipCompress(bytes) == [ok |-> TRUE, v |-> <<"GZ">> \o bytes]

\* gzip::gzip_decompress: the payload of a well-framed stream, an error otherwise
GzipDecompress(bytes) ==
    IF bytes # <<>> /\ Head(bytes) = "GZ"
    THEN [ok |-> TRUE, v |-> Tail(bytes)]
    ELSE [ok |-> FALSE]

\* Path::extension: the text after the last '.' of the file name, if the
\* file name has a '.' that is not its first character
Extension(path) ==
    LET slashes == {i \in 1..Len(path) : path[i] = Slash}
        from == IF slashes = {} THEN 1
                ELSE 1 + CHOOSE i \in slashes : \A j \in slashes : j <= i
        name == SubSeq(path, from, Len(path))
        dots == {i \in 1..Len(name) : name[i] = "."}
    IN  IF dots = {} THEN None
        ELSE LET d == CHOOSE i \in dots : \A j \in dots : j <= i
             IN  IF d = 1 THEN None ELSE Some(SubSeq(name, d + 1, Len(name)))

\* Compression::from_extention
FromExtention(path) ==
    LET ext == Extension(path)
    IN  IF ext.some /\ ext.v \in {<<"g", "z", "i", "p">>, <<"g", "z">>}
        THEN Gzip
        ELSE NoCompression

\* Compression::compress
Compress(c, bytes) == GzipCompress(bytes)

\* Compression::decompress
Decompress(c, bytes) == GzipDecompress(bytes)

\* the mutant of DecompressOpt that hands the stored bytes back undecoded
DecompressOptIdentity(data, decompression) == [ok |-> TRUE, v |-> data]

\* the mutant of DecompressOpt that runs the codec on an absent payload too
DecompressOptAbsentFails(data, decompression) ==
    IF decompression = NoCompression THEN [ok |-> TRUE, v |-> data]
    ELSE IF ~data.some THEN [ok |-> FALSE]
    ELSE LET d == Decompress(decompression, data.v)
         IN  IF d.ok THEN [ok |-> TRUE, v |-> Some(d.v)] ELSE [ok |-> FALSE]

\* decompress_opt
DecompressOpt(data, decompression) ==
    IF ~data.some THEN [ok |-> TRUE, v |-> None]
    ELSE IF decompression = NoCompression THEN [ok |-> TRUE, v |-> data]
    ELSE LET d == Decompress(decompression, data.v)
         IN  IF d.ok THEN [ok |-> TRUE, v |-> Some(d.v)] ELSE [ok |-> FALSE]

\* compress_opt
CompressOpt(data, compression) ==
    IF compression = NoCompression THEN [ok |-> TRUE, v |-> data]
    ELSE Compress(compression, data)

\* what a caller of compress_opt(..)? can get: the bytes through the codec,
\* or the Err a codec's compress may return
Compressed(data, compression) ==
    {CompressOpt(data, compression)}
        \cup (IF compression = NoCompression THEN {} ELSE {[ok |-> FALSE]})

----------------------------------------------------------------------------
(* Values of the model *)

Absent == <<"absent">>

\* the bodies a caller writes
Bodies == {<<"x">>, <<"GZ", "x">>}

\* the bodies a web server answers a successful request with
WebBodies == {<<"x">>, <<"GZ", "x">>}
\* the body a web server sends with an error status
WebErrorBody == <<"e">>

\* the object the calls of the model read, write and delete
ObjectKey == <<<<"b">>, <<"n">>>>

\* the objects of the store, in the order a listing returns them: the
\* object of the calls, a directory placeholder and an object under it
KeyOrder ==
    << ObjectKey,
       <<<<"b">>, <<"n", Slash>>>>,
       <<<<"b">>, <<"n", Slash, "b">>>> >>
ObjectKeys == {KeyOrder[i] : i \in 1..Len(KeyOrder)}

\* the store before the first call: the object of the calls is not there
\* yet, the other objects are
InitialStore == [k \in ObjectKeys |-> IF k = ObjectKey THEN Absent ELSE <<"x">>]

\* the local file of the calls; its extension names the gzip codec
FilePath == <<Slash, "b", Slash, "n", ".", "g", "z">>
DirPath == <<Slash, "b">>
LocalFiles == {FilePath}
LocalDirs == {DirPath}

\* the identifiers the dispatcher is called with
CallIds ==
    { GsPrefix \o <<"b", Slash, "n">>,                  \* an exact object
      GsPrefix \o <<"b", Slash, "n", Slash>>,           \* a prefix
      GsPrefix \o <<"b", Slash, "n", Slash, Slash>>,    \* a prefix whose name ends in a separator
      GsPrefix \o <<"b", Slash, Slash>>,                \* a double separator
      GsPrefix \o <<"b">>,                              \* a bare bucket
      HttpPrefix \o <<"b", Slash, "n">>,
      FtpPrefix \o <<"b", Slash, "n">>,
      FilePath,
      DirPath }

Policies == 0..MaxRetries

Err(type, cause) == [type |-> type, cause |-> cause]
NoErr == Err("none", "none")

ResOk(v) == [kind |-> "Ok", val |-> v]
ResErr(e) == [kind |-> "Err", err |-> e]
ResPanic == [kind |-> "Panic"]
NoResult == [kind |-> "None"]

Unit == "unit"

NoFile == [bucket |-> <<>>, name |-> <<>>, trailing_slash |-> FALSE]

Idle ==
    [pc |-> "idle", op |-> "none", id |-> <<>>, policy |-> 0, body |-> <<>>,
     comp |-> NoCompression, backend |-> "none", file |-> NoFile, url |-> <<>>,
     scheme |-> <<>>, payload |-> <<>>, invoked |-> 0, fails |-> 0, bcalls |-> 0,
     retriesLeft |-> 0, lastErr |-> NoErr, check |-> "none", faulted |-> FALSE,
     status |-> "none", lost |-> FALSE, coded |-> 0, raced |-> FALSE,
     before |-> Absent, text |-> FALSE, raw |-> NoResult, result |-> NoResult]

NoMut == [kind |-> "none", body |-> <<>>, comp |-> NoCompression]

\* what the history is kept of: the objects of the store and the local files
GcsKey(bucket, name) == <<"gcs", bucket, name>>
FsKey(path) == <<"fs", path, <<>>>>
HistKeys == {GcsKey(k[1], k[2]) : k \in ObjectKeys} \cup {FsKey(f) : f \in LocalFiles}

\* the history key of the resource a call works on
KeyOf(c) ==
    IF c.backend = "gcs" THEN GcsKey(c.file.bucket, c.file.name) ELSE FsKey(c.id)

----------------------------------------------------------------------------
(* The object store behind the cloud_storage client.  A primitive answers  *)
(* with a set of outcomes [res, store, called, fault]: the truthful answer *)
(* and the failures the service can answer with instead.  called counts    *)
(* the request sent, fault marks an answer that is a service failure.      *)

Good(v) == [ok |-> TRUE, v |-> v]
Bad(e) == [ok |-> FALSE, err |-> e]

Outcome(res, st, called, fault) ==
    [res |-> res, store |-> st, called |-> called, fault |-> fault]

\* a permission-denied style failure and a 5xx-class failure
GcsFaults == {"Forbidden", "Unavailable"}

StorageAccessError(cause) == Err("StorageAccessError", cause)
InvalidPath == Err("GcsInvalidBucketPathError", "trailing separator")

StoreGet(st, bucket, name) ==
    IF <<bucket, name>> \in DOMAIN st THEN st[<<bucket, name>>] ELSE Absent

StorePut(st, bucket, name, v) ==
    [k \in DOMAIN st \cup {<<bucket, name>>} |->
        IF k = <<bucket, name>> THEN v ELSE st[k]]

Faulty(st) == {Outcome(Bad(StorageAccessError(f)), st, 1, TRUE) : f \in GcsFaults}

\* object_exists
ObjectExists(st, bucket, name) ==
    IF EndsWith(name, <<Slash>>) THEN {Outcome(Bad(InvalidPath), st, 0, FALSE)}
    ELSE {Outcome(Good(StoreGet(st, bucket, name) # Absent), st, 1, FALSE)}
         \cup Faulty(st)

\* download_object
DownloadObject(st, bucket, name) ==
    IF EndsWith(name, <<Slash>>) THEN {Outcome(Bad(InvalidPath), st, 0, FALSE)}
    ELSE {IF StoreGet(st, bucket, name) # Absent
          THEN Outcome(Good(StoreGet(st, bucket, name)), st, 1, FALSE)
          ELSE Outcome(Bad(StorageAccessError("NotFound")), st, 1, FALSE)}
         \cup Faulty(st)

\* create_object: a failure answer may come after the object was stored
CreateObject(st, bucket, path, body) ==
    {Outcome(Good(Unit), StorePut(st, bucket, path, body), 1, FALSE),
     Outcome(Bad(StorageAccessError("Unavailable")),
             StorePut(st, bucket, path, body), 1, TRUE)}
    \cup Faulty(st)

\* delete_object: a failure answer may come after the object was removed
DeleteObject(st, bucket, path) ==
    IF EndsWith(path, <<Slash>>) THEN {Outcome(Bad(InvalidPath), st, 0, FALSE)}
    ELSE (IF StoreGet(st, bucket, path) # Absent
          THEN {Outcome(Good(Unit), StorePut(st, bucket, path, Absent), 1, FALSE),
                Outcome(Bad(StorageAccessError("Unavailable")),
                        StorePut(st, bucket, path, Absent), 1, TRUE)}
          ELSE {Outcome(Bad(StorageAccessError("NotFound")), st, 1, FALSE)})
         \cup Faulty(st)

\* the pages the store cuts a listing into: PageSize objects a page, one
\* empty page for an empty listing
PagesOf(objects) ==
    LET n == IF objects = <<>> THEN 1 ELSE (Len(objects) + PageSize - 1) \div PageSize
    IN  [p \in 1..n |->
            SubSeq(objects, (p - 1) * PageSize + 1,
                   IF p * PageSize < Len(objects) THEN p * PageSize ELSE Len(objects))]

\* Object::list: the stream of the pages of the objects of the bucket whose
\* name starts with the prefix.  The stream ends after its last page or
\* with the failure of the request for a page; requests counts the pages
\* asked for.
ObjectList(st, bucket, prefix) ==
    LET Listed(k) == k[1] = bucket /\ StartsWith(k[2], prefix) /\ st[k] # Absent
        keys == SelectSeq(KeyOrder, Listed)
        objects == [i \in 1..Len(keys) |-> [bucket |-> keys[i][1], name |-> keys[i][2]]]
        pages == PagesOf(objects)
    IN  {[ok |-> TRUE, pages |-> pages, requests |-> Len(pages)]}
        \cup {[ok |-> FALSE, pages |-> SubSeq(pages, 1, p - 1), requests |-> p,
                err |-> StorageAccessError(f)] : p \in 1..Len(pages), f \in GcsFaults}

\* result.append(&mut each_objs_list.items) over the pages
RECURSIVE Appended(_)
Appended(pages) ==
    IF pages = <<>> THEN <<>> ELSE Head(pages) \o Appended(Tail(pages))

\* the mutant of ListObjects that hands back the pages it got before a failure
ListObjectsPartial(st, bucket, name) ==
    {Outcome(Good(Appended(s.pages)), st, s.requests, ~s.ok) :
         s \in ObjectList(st, bucket, name)}

\* list_objects: try_collect gathers every page or stops at the first
\* failure; the items of the pages are appended in page order
ListObjects(st, bucket, name) ==
    {Outcome(IF s.ok THEN Good(Appended(s.pages)) ELSE Bad(s.err),
             st, s.requests, ~s.ok) :
         s \in ObjectList(st, bucket, name)}

----------------------------------------------------------------------------
(* The web server behind the reqwest client: what one GET can end in *)

HttpAccessError(cause) == Err("HttpAccessError", cause)

HttpSchemes == {<<"h", "t", "t", "p">>}

\* HTTP_CLI.get(url).send() followed by the read of the body.  The client
\* refuses a url whose scheme is not http(s) without sending anything.
HttpGet(scheme) ==
    IF scheme \in HttpSchemes
    THEN {[sent |-> TRUE, status |-> "200", body |-> Good(b)] : b \in WebBodies}
         \cup {[sent |-> TRUE, status |-> s, body |-> Good(WebErrorBody)] : s \in {"404", "500"}}
         \cup {[sent |-> TRUE, status |-> "200", body |-> Bad(HttpAccessError("body"))],
               [sent |-> FALSE, status |-> "none", body |-> Bad(HttpAccessError("connect"))]}
    ELSE {[sent |-> FALSE, status |-> "none", body |-> Bad(HttpAccessError("scheme"))]}

----------------------------------------------------------------------------
(* The local file system behind std::fs *)

IOError(cause) == Err("IOError", cause)

FsOutcome(res, fl, called, fault) ==
    [res |-> res, files |-> fl, called |-> called, fault |-> fault]

\* Path::exists
PathExists(fl, path) ==
    path \in LocalDirs \/ (path \in DOMAIN fl /\ fl[path] # Absent)

\* FileAccessor::is_exists
FsIsExists(fl, path) == {FsOutcome(Good(PathExists(fl, path)), fl, 1, FALSE)}

\* FileAccessor::read
FsRead(fl, path) ==
    IF PathExists(fl, path)
    THEN IF path \in LocalDirs
         THEN {FsOutcome(Bad(IOError("is a directory")), fl, 2, FALSE)}
         ELSE {FsOutcome(Good(Some(fl[path])), fl, 2, FALSE),
               FsOutcome(Bad(IOError("io")), fl, 2, TRUE)}
    ELSE {FsOutcome(Good(None), fl, 1, FALSE)}

\* FileAccessor::write
FsWrite(fl, path, body, compression) ==
    UNION {IF ~c.ok THEN {FsOutcome(Bad(Err("CompressionError", "gzip")), fl, 0, FALSE)}
           ELSE IF path \in LocalDirs
           THEN {FsOutcome(Bad(IOError("is a directory")), fl, 1, FALSE)}
           ELSE {FsOutcome(Good(Unit), [fl EXCEPT ![path] = c.v], 1, FALSE),
                 FsOutcome(Bad(IOError("io")), fl, 1, TRUE)} :
           c \in Compressed(body, compression)}

\* FileAccessor::list_directory
FsListDirectory(fl, path) ==
    IF path \in LocalDirs
    THEN LET Under(f) == StartsWith(f, path \o <<Slash>>) /\ fl[f] # Absent
         IN  {FsOutcome(Good(SelectSeq(<<FilePath>>, Under)), fl, 1, FALSE),
              FsOutcome(Bad(IOError("io")), fl, 1, TRUE)}
    ELSE {FsOutcome(Bad(IOError("not a directory")), fl, 1, FALSE)}

----------------------------------------------------------------------------
(* backoff::future::retry.  The policy is the number of retries its        *)
(* elapsed-time ceiling leaves room for: next_backoff answers with a wait  *)
(* that many times and with None after.                                    *)

Ok(v) == [kind |-> "Ok", v |-> v]

\* the mutant of Transient that makes the retry loop give up at once
TransientGivesUp(e) == [kind |-> "Permanent", err |-> e]

Transient(e) == [kind |-> "Transient", err |-> e]

\* BackoffError::Permanent, which no closure of the code builds
Permanent(e) == [kind |-> "Permanent", err |-> e]

\* the call record with the answer o of a backend primitive counted
Counted(c, o) ==
    [c EXCEPT !.bcalls = @ + o.called, !.faulted = @ \/ o.fault]

\* the call record after a mutating request answered by o on the store st:
\* lost marks a request that changed the store and was answered with a
\* failure
Effected(c, o, st) ==
    [Counted(c, o) EXCEPT !.lost = @ \/ (~o.res.ok /\ o.store # st)]

\* the call record as the closure is entered once more
Invoked(c) == [c EXCEPT !.invoked = @ + 1]

\* the mutant of Retry whose policy never runs out: each wait starts the
\* count of the attempts afresh
RetryAfresh(c, r) ==
    IF r.kind = "Ok"
    THEN [again |-> FALSE, c |-> c, out |-> Good(r.v)]
    ELSE [again |-> TRUE,
          c |-> [c EXCEPT !.pc = "attempt", !.invoked = 0, !.fails = 0,
                          !.bcalls = 0, !.lastErr = r.err]]

\* the mutant of Retry that allows one retry more than the policy
RetryOneMore(c, r) ==
    IF r.kind = "Ok"
    THEN [again |-> FALSE, c |-> c, out |-> Good(r.v)]
    ELSE IF r.kind = "Transient" /\ c.retriesLeft >= 0
    THEN [again |-> TRUE,
          c |-> [c EXCEPT !.pc = "attempt", !.retriesLeft = @ - 1,
                          !.fails = @ + 1, !.lastErr = r.err]]
    ELSE [again |-> FALSE,
          c |-> [c EXCEPT !.fails = @ + 1, !.lastErr = r.err],
          out |-> Bad(r.err)]

\* one turn of the retry loop on the closure's result r: return the value,
\* wait and go again, or give up with the error
Retry(c, r) ==
    IF r.kind = "Ok"
    THEN [again |-> FALSE, c |-> c, out |-> Good(r.v)]
    ELSE IF r.kind = "Transient" /\ c.retriesLeft > 0
    THEN [again |-> TRUE,
          c |-> [c EXCEPT !.pc = "attempt", !.retriesLeft = @ - 1,
                          !.fails = @ + 1, !.lastErr = r.err]]
    ELSE [again |-> FALSE,
          c |-> [c EXCEPT !.fails = @ + 1, !.lastErr = r.err],
          out |-> Bad(r.err)]

Panicked(c) == [c EXCEPT !.pc = "panicked", !.result = ResPanic]

\* std::str::from_utf8 accepts the bytes: the gzip magic number, which the
\* token "GZ" stands for, holds the byte 0x8b, a continuation byte with no
\* lead byte
ValidUtf8(bytes) == \A i \in 1..Len(bytes) : bytes[i] # "GZ"

\* the String made of bytes
Str(bytes) == [utf8 |-> bytes]

\* the call returns res; under get_file_contents_str the contents read, if
\* any, become a String through from_utf8(..).unwrap()
Done(c, res) ==
    IF c.text /\ res.kind = "Ok" /\ res.val.some
    THEN IF ValidUtf8(res.val.v)
         THEN [c EXCEPT !.pc = "done", !.raw = res,
                        !.result = ResOk(Some(Str(res.val.v)))]
         ELSE Panicked([c EXCEPT !.raw = res])
    ELSE [c EXCEPT !.pc = "done", !.raw = IF c.text THEN res ELSE NoResult,
                   !.result = res]

\* a result of the retry loop handed to the caller as it is
Plain(out) == IF out.ok THEN ResOk(out.v) ELSE ResErr(out.err)

\* the tail of download_with_retry and of download_from_url_with_retry: the
\* loop's error, or the contents through decompress_opt
Decoded(out, decompression) ==
    IF ~out.ok THEN ResErr(out.err)
    ELSE LET d == DecompressOpt(out.v, decompression)
         IN  IF d.ok THEN ResOk(d.v) ELSE ResErr(Err("CompressionError", "gzip"))

\* the mutant of Finished that decodes inside the retried closure: contents
\* that fail to decode count as a failed attempt and are downloaded again
FinishedInsideLoop(c, out, decompression) ==
    IF out.ok /\ Decoded(out, decompression).kind = "Err" /\ c.retriesLeft > 0
    THEN [c EXCEPT !.pc = "attempt", !.retriesLeft = @ - 1, !.fails = @ + 1,
                   !.coded = @ + 1, !.lastErr = Err("CompressionError", "gzip")]
    ELSE Done(IF out.ok THEN [c EXCEPT !.coded = @ + 1] ELSE c,
              Decoded(out, decompression))

\* the tail of download_with_retry and of download_from_url_with_retry on
\* the call record: the loop's error ends the call, contents go through
\* decompress_opt once
Finished(c, out, decompression) ==
    Done(IF out.ok THEN [c EXCEPT !.coded = @ + 1] ELSE c, Decoded(out, decompression))

Begin(op, id, policy, body, comp) ==
    [Idle EXCEPT !.op = op, !.id = id, !.policy = policy, !.retriesLeft = policy,
                 !.body = body, !.comp = comp]

OnGcs(c, gf) ==
    [c EXCEPT !.backend = "gcs",
              !.file = [bucket |-> gf.bucket, name |-> gf.name,
                        trailing_slash |-> gf.trailing_slash]]
OnWeb(c, url) == [c EXCEPT !.backend = "web", !.url = url.str, !.scheme = url.scheme]
OnFs(c, o) == Counted([c EXCEPT !.backend = "fs"], o)

Attempting(c) == [c EXCEPT !.pc = "attempt"]

----------------------------------------------------------------------------
(* The dispatcher (lib.rs): each operation up to its first backend request *)

\* list_files
ListFiles(id, policy) ==
    /\ call.pc = "idle"
    /\ LET url == UrlParse(id)
           c == Begin("list", id, policy, <<>>, NoCompression)
       IN  IF url.ok /\ GcsFileNewWithUrl(url.str).ok
           THEN /\ call' = Attempting(OnGcs(c, GcsFileNewWithUrl(url.str)))
                /\ UNCHANGED files
           ELSE IF url.ok
           THEN /\ call' = Panicked(OnWeb(c, url))
                /\ UNCHANGED files
           ELSE \E o \in FsListDirectory(files, id) :
                    /\ call' = Done(OnFs(c, o), Plain(o.res))
                    /\ files' = o.files
    /\ UNCHANGED <<store, lastMut, probe>>

\* get_file_contents, called by the caller (text FALSE) or by
\* get_file_contents_str (text TRUE)
ReadContents(id, policy, decompression, text) ==
    /\ call.pc = "idle"
    /\ LET url == UrlParse(id)
           c == [Begin("read", id, policy, <<>>, decompression) EXCEPT !.text = text]
       IN  IF url.ok /\ GcsFileNewWithUrl(url.str).ok
           THEN LET gf == GcsFileNewWithUrl(url.str)
                IN  /\ call' = IF gf.trailing_slash
                               THEN Done(OnGcs(c, gf), ResErr(InvalidPath))
                               ELSE Attempting([OnGcs(c, gf) EXCEPT
                                        !.before = StoreGet(store, gf.bucket, gf.name)])
                    /\ UNCHANGED files
           ELSE IF url.ok
           THEN /\ call' = Attempting(OnWeb(c, url))
                /\ UNCHANGED files
           ELSE \E o \in FsRead(files, id) :
                    /\ call' = Done(OnFs(c, o), Plain(o.res))
                    /\ files' = o.files
    /\ UNCHANGED <<store, lastMut, probe>>

\* get_file_contents
GetFileContents(id, policy, decompression) ==
    ReadContents(id, policy, decompression, FALSE)

\* get_file_contents_str
GetFileContentsStr(id, policy, decompression) ==
    ReadContents(id, policy, decompression, TRUE)

\* is_exists
IsExists(id, policy) ==
    /\ call.pc = "idle"
    /\ LET url == UrlParse(id)
           c == Begin("exists", id, policy, <<>>, NoCompression)
       IN  IF url.ok /\ GcsFileNewWithUrl(url.str).ok
           THEN LET gf == GcsFileNewWithUrl(url.str)
                IN  /\ call' = IF gf.trailing_slash
                               THEN Done(OnGcs(c, gf), ResErr(InvalidPath))
                               ELSE Attempting(OnGcs(c, gf))
                    /\ UNCHANGED files
           ELSE IF url.ok
           THEN /\ call' = Attempting(OnWeb(c, url))
                /\ UNCHANGED files
           ELSE \E o \in FsIsExists(files, id) :
                    /\ call' = Done(OnFs(c, o), Plain(o.res))
                    /\ files' = o.files
    /\ UNCHANGED <<store, lastMut, probe>>

\* the mutant of WriteStart that forgets the test on the prefix address
WriteStartNoPrefixTest(c, z) ==
    IF ~z.ok
    THEN Done([c EXCEPT !.coded = @ + 1], ResErr(Err("CompressionError", "gzip")))
    ELSE Attempting([c EXCEPT !.coded = @ + 1, !.payload = z.v])

\* write_with_retry up to the retry loop: a prefix address is turned down,
\* then the body goes through compress_opt, whose result is z, once
WriteStart(c, z) ==
    IF c.file.trailing_slash THEN Done(c, ResErr(InvalidPath))
    ELSE IF ~z.ok
    THEN Done([c EXCEPT !.coded = @ + 1], ResErr(Err("CompressionError", "gzip")))
    ELSE Attempting([c EXCEPT !.coded = @ + 1, !.payload = z.v])

\* write_contents
WriteContents(id, body, policy, compression) ==
    /\ call.pc = "idle"
    /\ LET url == UrlParse(id)
           c == Begin("write", id, policy, body, compression)
       IN  IF url.ok /\ GcsFileNewWithUrl(url.str).ok
           THEN LET gf == GcsFileNewWithUrl(url.str)
                IN  /\ \E z \in Compressed(body, compression) :
                           call' = WriteStart(OnGcs(c, gf), z)
                    /\ UNCHANGED files
           ELSE IF url.ok
           THEN /\ call' = Panicked(OnWeb(c, url))
                /\ UNCHANGED files
           ELSE \E o \in FsWrite(files, id, body, compression) :
                    /\ call' = Done(OnFs(c, o), Plain(o.res))
                    /\ files' = o.files
    /\ UNCHANGED <<store, lastMut, probe>>

\* delete_contents; FileAccessor::delete is unimplemented!()
DeleteContents(id, policy) ==
    /\ call.pc = "idle"
    /\ LET url == UrlParse(id)
           c == Begin("delete", id, policy, <<>>, NoCompression)
       IN  call' = IF url.ok /\ GcsFileNewWithUrl(url.str).ok
                   THEN Attempting(OnGcs(c, GcsFileNewWithUrl(url.str)))
                   ELSE IF url.ok
                   THEN Panicked(OnWeb(c, url))
                   ELSE Panicked([c EXCEPT !.backend = "fs"])
    /\ UNCHANGED <<store, files, lastMut, probe>>

----------------------------------------------------------------------------
(* The retried closures of the object-store backend, one invocation each *)

Retrying(backend, op) ==
    call.pc = "attempt" /\ call.backend = backend /\ call.op = op

\* the mutant of Rendered that drops the separator a stored name ends in
RenderedAsExact(obj) ==
    IF EndsWith(obj.name, <<Slash>>)
    THEN GcsFileDisplay([bucket |-> obj.bucket, name |-> DropLast(obj.name),
                         trailing_slash |-> FALSE])
    ELSE GcsFileDisplay([bucket |-> obj.bucket, name |-> obj.name,
                         trailing_slash |-> FALSE])

\* the address a listed object is handed back as
Rendered(obj) ==
    IF EndsWith(obj.name, <<Slash>>)
    THEN GcsFileDisplay([bucket |-> obj.bucket, name |-> DropLast(obj.name),
                         trailing_slash |-> TRUE])
    ELSE GcsFileDisplay([bucket |-> obj.bucket, name |-> obj.name,
                         trailing_slash |-> FALSE])

\* the closure of list_objects_with_retry
ListObjectsAttempt ==
    /\ Retrying("gcs", "list")
    /\ LET f == call.file
           name == IF f.trailing_slash THEN f.name \o <<Slash>> ELSE f.name
       IN  \E o \in ListObjects(store, f.bucket, name) :
             LET r == IF o.res.ok
                      THEN Ok([i \in 1..Len(o.res.v) |-> Rendered(o.res.v[i])])
                      ELSE Transient(o.res.err)
                 t == Retry(Counted(Invoked(call), o), r)
             IN  /\ call' = IF t.again THEN t.c ELSE Done(t.c, Plain(t.out))
                 /\ store' = o.store
    /\ UNCHANGED <<files, lastMut, probe>>

\* the closure of is_exists_with_retry
IsExistsAttempt ==
    /\ Retrying("gcs", "exists")
    /\ \E o \in ObjectExists(store, call.file.bucket, call.file.name) :
         LET r == IF o.res.ok THEN Ok(o.res.v) ELSE Transient(o.res.err)
             t == Retry(Counted(Invoked(call), o), r)
         IN  /\ call' = IF t.again THEN t.c ELSE Done(t.c, Plain(t.out))
             /\ store' = o.store
    /\ UNCHANGED <<files, lastMut, probe>>

\* the closure of download_with_retry up to the answer of download's
\* object_exists: on Ok(true) the download follows, on anything else the
\* closure returns Ok(None)
DownloadCheck ==
    /\ Retrying("gcs", "read")
    /\ \E o \in ObjectExists(store, call.file.bucket, call.file.name) :
         LET c == [Counted(Invoked(call), o) EXCEPT
                       !.check = IF ~o.res.ok THEN "error"
                                 ELSE IF o.res.v THEN "present" ELSE "absent"]
         IN  /\ call' = IF o.res.ok /\ o.res.v
                        THEN [c EXCEPT !.pc = "download"]
                        ELSE LET t == Retry(c, Ok(None))
                             IN  Finished(t.c, t.out, call.comp)
             /\ store' = o.store
    /\ UNCHANGED <<files, lastMut, probe>>

\* the rest of the closure of download_with_retry: download's download_object
DownloadGet ==
    /\ call.pc = "download"
    /\ \E o \in DownloadObject(store, call.file.bucket, call.file.name) :
         LET r == IF o.res.ok THEN Ok(Some(o.res.v)) ELSE Transient(o.res.err)
             t == Retry(Counted(call, o), r)
         IN  /\ call' = IF t.again THEN t.c ELSE Finished(t.c, t.out, call.comp)
             /\ store' = o.store
    /\ UNCHANGED <<files, lastMut, probe>>

\* the closure of write_with_retry
WriteAttempt ==
    /\ Retrying("gcs", "write")
    /\ \E o \in CreateObject(store, call.file.bucket, call.file.name, call.payload) :
         LET r == IF o.res.ok THEN Ok(Unit) ELSE Transient(o.res.err)
             t == Retry(Effected(Invoked(call), o, store), r)
         IN  /\ call' = IF t.again THEN t.c ELSE Done(t.c, Plain(t.out))
             /\ store' = o.store
    /\ UNCHANGED <<files, lastMut, probe>>

\* the closure of delete_with_retry
DeleteAttempt ==
    /\ Retrying("gcs", "delete")
    /\ \E o \in DeleteObject(store, call.file.bucket, call.file.name) :
         LET r == IF o.res.ok THEN Ok(Unit) ELSE Transient(o.res.err)
             t == Retry(Effected(Invoked(call), o, store), r)
         IN  /\ call' = IF t.again THEN t.c ELSE Done(t.c, Plain(t.out))
             /\ store' = o.store
    /\ UNCHANGED <<files, lastMut, probe>>

----------------------------------------------------------------------------
(* Another caller on the same object *)

\* the Object::delete of another caller's delete_with_retry lands on the
\* object a read of this caller is working on, once while the read runs
OtherCallerDelete ==
    /\ call.backend = "gcs" /\ call.op = "read"
    /\ call.pc \in {"attempt", "download"}
    /\ ~call.raced
    /\ StoreGet(store, call.file.bucket, call.file.name) # Absent
    /\ store' = StorePut(store, call.file.bucket, call.file.name, Absent)
    /\ call' = [call EXCEPT !.raced = TRUE]
    /\ lastMut' = IF KeyOf(call) \in DOMAIN lastMut
                  THEN [lastMut EXCEPT ![KeyOf(call)] =
                           [kind |-> "delete", body |-> <<>>, comp |-> NoCompression]]
                  ELSE lastMut
    /\ UNCHANGED <<files, probe>>

----------------------------------------------------------------------------
(* The retried closures of the web backend *)

\* the call record with the answer o of the web server counted; status keeps
\* the status line of the last answer
HttpCounted(c, o) ==
    [c EXCEPT !.bcalls = @ + 1, !.faulted = @ \/ ~o.body.ok, !.status = o.status]

\* the closure of url_exists_with_retry
UrlExistsAttempt ==
    /\ Retrying("web", "exists")
    /\ \E o \in HttpGet(call.scheme) :
         LET r == IF o.sent THEN Ok(o.status = "200") ELSE Transient(o.body.err)
             t == Retry(HttpCounted(Invoked(call), o), r)
         IN  call' = IF t.again THEN t.c ELSE Done(t.c, Plain(t.out))
    /\ UNCHANGED <<store, files, lastMut, probe>>

\* the closure of download_from_url_with_retry
UrlDownloadAttempt ==
    /\ Retrying("web", "read")
    /\ \E o \in HttpGet(call.scheme) :
         LET r == IF ~o.sent
                  THEN IF o.status = "404" THEN Ok(None) ELSE Transient(o.body.err)
                  ELSE IF o.body.ok THEN Ok(Some(o.body.v)) ELSE Transient(o.body.err)
             t == Retry(HttpCounted(Invoked(call), o), r)
         IN  call' = IF t.again THEN t.c ELSE Finished(t.c, t.out, call.comp)
    /\ UNCHANGED <<store, files, lastMut, probe>>

----------------------------------------------------------------------------
(* The caller takes the result; the history of the object is brought up to date *)

Mutation(c) ==
    IF c.op = "write" /\ c.result.kind = "Ok"
    THEN [kind |-> "write", body |-> c.body, comp |-> c.comp]
    ELSE IF c.op = "delete" /\ c.result.kind = "Ok"
    THEN [kind |-> "delete", body |-> <<>>, comp |-> NoCompression]
    ELSE [kind |-> "unknown", body |-> <<>>, comp |-> NoCompression]

Return ==
    /\ call.pc = "done"
    /\ call' = Idle
    /\ lastMut' = IF /\ call.op \in {"write", "delete"}
                     /\ call.bcalls > 0
                     /\ KeyOf(call) \in DOMAIN lastMut
                  THEN [lastMut EXCEPT ![KeyOf(call)] = Mutation(call)]
                  ELSE lastMut
    /\ UNCHANGED <<store, files, probe>>

----------------------------------------------------------------------------
(* The parsers on their own *)

NoProbe == [kind |-> "none", id |-> <<>>, parsed |-> FALSE]

\* GcsFile::new, GcsBucket::new and the dispatcher's choice on one identifier,
\* and the parsed address through to_string()
ParseProbe ==
    /\ probe.kind = "parse"
    /\ ~probe.parsed
    /\ probe' = [kind |-> "parse", id |-> probe.id, parsed |-> TRUE,
                 file |-> GcsFileNew(probe.id),
                 bucket |-> GcsBucketNew(probe.id),
                 backend |-> SelectBackend(probe.id),
                 rendered |-> IF GcsFileNew(probe.id).ok
                              THEN GcsFileDisplay(GcsFileNew(probe.id))
                              ELSE <<>>]
    /\ UNCHANGED <<store, files, call, lastMut>>

----------------------------------------------------------------------------
(* The codec helpers on their own *)

\* the payloads decompress_opt is tried on: none, or bytes with and without
\* the gzip framing
Payloads == {None} \cup {Some(b) : b \in SeqsUpTo({"GZ", "x"}, MaxBytes)}

\* decompress_opt on one payload and one choice of codec
DecompressOptProbe ==
    /\ probe.kind = "codec"
    /\ ~probe.applied
    /\ probe' = [probe EXCEPT !.applied = TRUE,
                              !.out = DecompressOpt(probe.data, probe.decompression)]
    /\ UNCHANGED <<store, files, call, lastMut>>

----------------------------------------------------------------------------
(* Specifications *)

Init ==
    /\ store = InitialStore
    /\ files = [f \in LocalFiles |-> Absent]
    /\ call = Idle
    /\ lastMut = [k \in HistKeys |-> NoMut]
    /\ probe = NoProbe

Next ==
    \/ \E id \in CallIds, policy \in Policies : ListFiles(id, policy)
    \/ \E id \in CallIds, policy \in Policies, d \in Compressions :
           GetFileContents(id, policy, d)
    \/ \E id \in CallIds, policy \in Policies, d \in Compressions :
           GetFileContentsStr(id, policy, d)
    \/ \E id \in CallIds, policy \in Policies : IsExists(id, policy)
    \/ \E id \in CallIds, body \in Bodies, policy \in Policies, c \in Compressions :
           WriteContents(id, body, policy, c)
    \/ \E id \in CallIds, policy \in Policies : DeleteContents(id, policy)
    \/ ListObjectsAttempt
    \/ IsExistsAttempt
    \/ DownloadCheck
    \/ DownloadGet
    \/ WriteAttempt
    \/ DeleteAttempt
    \/ UrlExistsAttempt
    \/ UrlDownloadAttempt
    \/ OtherCallerDelete
    \/ Return

Spec == Init /\ [][Next]_vars

InitParse ==
    /\ store = InitialStore
    /\ files = [f \in LocalFiles |-> Absent]
    /\ call = Idle
    /\ lastMut = [k \in HistKeys |-> NoMut]
    /\ \E id \in Identifiers : probe = [kind |-> "parse", id |-> id, parsed |-> FALSE]

NextParse == ParseProbe

\* the invocations of the retried closures
Attempts ==
    \/ ListObjectsAttempt
    \/ IsExistsAttempt
    \/ DownloadCheck
    \/ DownloadGet
    \/ WriteAttempt
    \/ DeleteAttempt
    \/ UrlExistsAttempt
    \/ UrlDownloadAttempt

\* the dispatcher with every request to a backend answered and the retry
\* loop driven on: an attempt that can be made is made
SpecLive == Spec /\ WF_vars(Attempts)

SpecParse == InitParse /\ [][NextParse]_vars

InitCodec ==
    /\ store = InitialStore
    /\ files = [f \in LocalFiles |-> Absent]
    /\ call = Idle
    /\ lastMut = [k \in HistKeys |-> NoMut]
    /\ \E data \in Payloads, d \in Compressions :
           probe = [kind |-> "codec", data |-> data, decompression |-> d,
                    applied |-> FALSE, out |-> [ok |-> FALSE]]

NextCodec == DecompressOptProbe

SpecCodec == InitCodec /\ [][NextCodec]_vars

----------------------------------------------------------------------------
(* Claims *)

InFlight == call.pc \in {"attempt", "download", "done", "panicked"}

OnPrefix == call.backend = "gcs" /\ call.file.trailing_slash

\* C1: exists, read and delete on a prefix-type object-store address each
\* fail with an invalid-address error, and no request reaches the store.
C1_PrefixOpsRejected ==
    (InFlight /\ OnPrefix /\ call.op \in {"exists", "read", "delete"})
        => /\ call.bcalls = 0
           /\ call.pc = "done" =>
                  /\ call.result.kind = "Err"
                  /\ call.result.err.type = "GcsInvalidBucketPathError"

\* C2: a retried operation that fails k times and then succeeds returns the
\* success after exactly k+1 invocations when the policy allows k retries;
\* when the operation fails more often than the policy allows retries, the
\* call returns the last error, after policy+1 invocations.
C2_RetryCount ==
    (call.pc = "done" /\ call.invoked > 0)
        => IF call.result.kind = "Err" /\ call.result.err.type # "CompressionError"
           THEN /\ call.fails = call.policy + 1
                /\ call.invoked = call.policy + 1
                /\ call.result.err = call.lastErr
           ELSE /\ call.invoked = call.fails + 1
                /\ call.fails <= call.policy

\* a call that succeeded on the retry the policy allowed last
C2_Witness ==
    /\ call.pc = "done"
    /\ call.result.kind = "Ok"
    /\ call.policy = MaxRetries
    /\ call.fails = MaxRetries
    /\ call.invoked = MaxRetries + 1

\* the errors the specification calls permanent: a malformed address, an
\* explicit not-found, a permission-denied style access error
IsPermanent(e) ==
    \/ e.type = "GcsInvalidBucketPathError"
    \/ e.type = "StorageAccessError" /\ e.cause \in {"NotFound", "Forbidden"}

\* C3: an operation whose first attempt fails with a permanent error is
\* invoked once and the call returns that error; it is not retried.
C3_PermanentNotRetried ==
    (call.invoked = 1 /\ call.fails = 1 /\ IsPermanent(call.lastErr))
        => call.pc = "done" /\ call.result = ResErr(call.lastErr)

\* C4: on an exact object and with no service failure during the call, a read
\* with gzip after write(x, gzip) returns x, exists after a write returns
\* true, and exists after a delete returns false.
C4_WriteReadExistsDelete ==
    (/\ call.pc = "done"
     /\ call.backend = "gcs"
     /\ ~call.file.trailing_slash
     /\ ~call.faulted
     /\ KeyOf(call) \in DOMAIN lastMut)
        => LET m == lastMut[KeyOf(call)]
           IN  /\ (/\ call.op = "read" /\ ~call.text
                    /\ call.comp = Gzip /\ m.kind = "write" /\ m.comp = Gzip)
                      => call.result = ResOk(Some(m.body))
               /\ (call.op = "exists" /\ m.kind = "write") => call.result = ResOk(TRUE)
               /\ (call.op = "exists" /\ m.kind = "delete") => call.result = ResOk(FALSE)

\* a gzip read that returned the body of the gzip write before it
C4_Witness ==
    /\ call.pc = "done"
    /\ call.backend = "gcs"
    /\ call.op = "read"
    /\ call.comp = Gzip
    /\ ~call.faulted
    /\ KeyOf(call) \in DOMAIN lastMut
    /\ lastMut[KeyOf(call)].kind = "write"
    /\ lastMut[KeyOf(call)].comp = Gzip
    /\ call.result = ResOk(Some(lastMut[KeyOf(call)].body))

\* C5: on a local path too, a read with decompression c after a write with
\* compression c returns the written bytes.
C5_LocalCodecRoundTrip ==
    (/\ call.pc = "done"
     /\ call.backend = "fs"
     /\ call.op = "read"
     /\ ~call.text
     /\ ~call.faulted
     /\ KeyOf(call) \in DOMAIN lastMut
     /\ lastMut[KeyOf(call)].kind = "write"
     /\ lastMut[KeyOf(call)].comp = call.comp)
        => call.result = ResOk(Some(lastMut[KeyOf(call)].body))

\* C6: an object-store read reports NotFound only when its existence check
\* answered that the object is absent, never when the check failed.
C6_NotFoundOnlyWhenAbsent ==
    (/\ call.pc = "done"
     /\ call.backend = "gcs"
     /\ call.op = "read"
     /\ call.result = ResOk(None))
        => call.check = "absent"

\* list, write or delete on an http url; delete on a local path
Unsupported ==
    \/ /\ call.backend = "web"
       /\ call.scheme \in HttpSchemes
       /\ call.op \in {"list", "write", "delete"}
    \/ call.backend = "fs" /\ call.op = "delete"

\* C7: an operation the resolved backend does not support returns an
\* UnsupportedOperation error: no panic, no success, no backend request.
C7_UnsupportedIsError ==
    (InFlight /\ Unsupported)
        => /\ call.pc # "panicked"
           /\ call.bcalls = 0
           /\ call.pc = "done" =>
                  /\ call.result.kind = "Err"
                  /\ call.result.err.type = "UnsupportedOperation"

\* C8: an identifier goes to the object store if it parses as an object-store
\* address, else to the web backend exactly if it is an absolute http(s) url,
\* else to the local backend.
C8_BackendSelection ==
    probe.parsed
        => probe.backend =
               IF probe.file.ok THEN "gcs"
               ELSE IF UrlParse(probe.id).ok /\ UrlParse(probe.id).scheme \in HttpSchemes
               THEN "web"
               ELSE "fs"

\* a bucket and nothing after it
BareBucket(id) ==
    /\ StartsWith(id, GsPrefix)
    /\ Len(id) > Len(GsPrefix)
    /\ \A i \in (Len(GsPrefix) + 1)..Len(id) : id[i] # Slash

\* C9: an operation on an identifier with the object-store scheme that is no
\* valid object address (a bare bucket counts for the object operations, not
\* for list) fails with a parse error at once: no backend is entered, nothing
\* is requested, nothing retried.
C9_InvalidGsIsParseError ==
    (/\ InFlight
     /\ StartsWith(call.id, GsPrefix)
     /\ ~GcsFileNew(call.id).ok
     /\ ~(call.op = "list" /\ BareBucket(call.id)))
        => /\ call.pc # "panicked"
           /\ call.invoked = 0
           /\ call.bcalls = 0
           /\ call.pc = "done" =>
                  /\ call.result.kind = "Err"
                  /\ call.result.err.type \in {"InvalidGcsUrl", "GcsInvalidBucketPathError",
                                               "UrlParseError"}

\* the text after the scheme prefix
AfterScheme(id) == SubSeq(id, Len(GsPrefix) + 1, Len(id))

\* no bucket between the scheme prefix and the end or the first separator
EmptyBucket(id) == AfterScheme(id) = <<>> \/ AfterScheme(id)[1] = Slash

\* the first separator after the scheme prefix is followed by another one
NameStartsWithSlash(id) ==
    LET a == AfterScheme(id)
    IN  \E i \in 1..(Len(a) - 1) :
            /\ \A j \in 1..(i - 1) : a[j] # Slash
            /\ a[i] = Slash
            /\ a[i + 1] = Slash

ValidId(id) ==
    /\ StartsWith(id, GsPrefix)
    /\ LET r == AfterScheme(id)
           b == UpToSlash(r)
           n == SubSeq(r, Len(b) + 2, Len(r))
       IN  /\ b # <<>>
           /\ Len(r) > Len(b)
           /\ n # <<>>
           /\ n # <<Slash>>
           /\ Head(n) # Slash

C12_BareBucket ==
    (probe.kind = "parse" /\ probe.parsed /\ BareBucket(probe.id))
        => /\ probe.bucket.ok
           /\ probe.bucket.bucket = AfterScheme(probe.id)
           /\ ~probe.file.ok

\* a bare bucket of two characters went through both parsers
C12_Witness ==
    /\ probe.kind = "parse" /\ probe.parsed /\ BareBucket(probe.id)
    /\ probe.bucket.ok
    /\ Len(probe.bucket.bucket) = 2
    /\ ~probe.file.ok

\* the bucket of gs://b/..., the text up to the first separator
BucketPart(id) == UpToSlash(AfterScheme(id))

\* the text after the separator that follows the bucket
NamePart(id) ==
    SubSeq(AfterScheme(id), Len(BucketPart(id)) + 2, Len(AfterScheme(id)))

\* gs://b/n or gs://b/n/ with a bucket b and a non-empty name n that does
\* not end in a separator
BucketAndName(id) ==
    /\ StartsWith(id, GsPrefix)
    /\ BucketPart(id) # <<>>
    /\ Len(AfterScheme(id)) > Len(BucketPart(id))
    /\ LET m == NamePart(id)
           n == IF EndsWith(m, <<Slash>>) THEN DropLast(m) ELSE m
       IN  n # <<>> /\ ~EndsWith(n, <<Slash>>)

\* the name n of such an identifier and whether the identifier is gs://b/n/
BaseName(id) ==
    IF EndsWith(NamePart(id), <<Slash>>) THEN DropLast(NamePart(id)) ELSE NamePart(id)

\* what the claim expects of the parse: bucket b, name n, is_prefix for n/
ParsedAsClaimed ==
    probe.file = [ok |-> TRUE, bucket |-> BucketPart(probe.id),
                  name |-> BaseName(probe.id),
                  trailing_slash |-> EndsWith(NamePart(probe.id), <<Slash>>)]

ListPrefix ==
    IF call.file.trailing_slash THEN call.file.name \o <<Slash>> ELSE call.file.name

\* the objects of the store under the prefix of the list call
UnderPrefix ==
    {k \in ObjectKeys : /\ k[1] = call.file.bucket
                        /\ StartsWith(k[2], ListPrefix)
                        /\ store[k] # Absent}

\* the place of an object in the order of the store's listing
PlaceOf(k) == CHOOSE i \in 1..Len(KeyOrder) : KeyOrder[i] = k

\* the entry of the listing v for the object k
EntriesOf(v, k) ==
    {i \in 1..Len(v) : v[i] = Rendered([bucket |-> k[1], name |-> k[2]])}

\* C14: a list over an object-store prefix hands back all or nothing: a
\* listing that is returned holds every object under the prefix, of every
\* page, exactly once and in the order of the pages; a listing cut short
\* by the failure of a page is never returned.
C14_ListAllOrNothing ==
    (/\ call.pc = "done" /\ call.op = "list" /\ call.backend = "gcs"
     /\ call.result.kind = "Ok")
        => LET v == call.result.val
           IN  /\ Len(v) = Cardinality(UnderPrefix)
               /\ \A k \in UnderPrefix : Cardinality(EntriesOf(v, k)) = 1
               /\ \A k1, k2 \in UnderPrefix :
                      PlaceOf(k1) < PlaceOf(k2)
                          => \A i \in EntriesOf(v, k1), j \in EntriesOf(v, k2) : i < j

\* a listing of three pages returned by the attempt after one that failed
\* on its second page
C14_Witness ==
    /\ call.pc = "done" /\ call.op = "list" /\ call.backend = "gcs"
    /\ call.result.kind = "Ok"
    /\ Len(call.result.val) = 3
    /\ call.invoked = 2
    /\ call.bcalls = 5

\* C15: decompress_opt has three cases: an absent payload gives an absent
\* result whatever the codec; a present payload with no codec comes back
\* unchanged; a present payload with a codec gives the codec's output, or
\* the codec's error when the codec fails.
C15_DecompressOptCases ==
    (probe.kind = "codec" /\ probe.applied)
        => /\ ~probe.data.some => probe.out = [ok |-> TRUE, v |-> None]
           /\ (probe.data.some /\ probe.decompression = NoCompression)
                  => probe.out = [ok |-> TRUE, v |-> probe.data]
           /\ (probe.data.some /\ probe.decompression # NoCompression)
                  => LET d == Decompress(probe.decompression, probe.data.v)
                     IN  IF d.ok THEN probe.out = [ok |-> TRUE, v |-> Some(d.v)]
                         ELSE ~probe.out.ok

\* an absent payload went through decompress_opt with the gzip codec
C15_Witness ==
    /\ probe.kind = "codec" /\ probe.applied
    /\ ~probe.data.some
    /\ probe.decompression = Gzip
    /\ probe.out = [ok |-> TRUE, v |-> None]

\* the codec the selection rules name for a call: the compression handed
\* in, else the one of the identifier's extension, else none
SelectedCodec(id, explicit) ==
    IF explicit # NoCompression THEN explicit ELSE FromExtention(id)

\* the bytes kept under the resource of the call
Stored ==
    IF call.backend = "gcs"
    THEN StoreGet(store, call.file.bucket, call.file.name)
    ELSE files[call.id]

\* C16: a write stores its body through the selected codec: the compression
\* handed in, else gzip when the identifier's extension is gz or gzip, else
\* the body as it is; write(id ending in .gz, x, no compression) stores
\* gzip(x).
C16_CodecSelection ==
    (/\ call.pc = "done" /\ call.op = "write" /\ call.result.kind = "Ok"
     /\ call.backend \in {"gcs", "fs"})
        => Stored = CompressOpt(call.body, SelectedCodec(call.id, call.comp)).v

\* C17: get_file_contents_str returns NotFound when the read returns
\* NotFound, the text when the bytes read are valid text, and a decode
\* error, as a value and not as an abort, when they are not.
C17_TextOrDecodeError ==
    (call.text /\ call.raw.kind = "Ok")
        => /\ call.pc # "panicked"
           /\ call.pc = "done" =>
                  IF ~call.raw.val.some THEN call.result = ResOk(None)
                  ELSE IF ValidUtf8(call.raw.val.v)
                  THEN call.result = ResOk(Some(Str(call.raw.val.v)))
                  ELSE /\ call.result.kind = "Err"
                       /\ call.result.err.type = "DecodeError"

\* C18: a write or delete one of whose attempts took effect on the store
\* and was answered with a transient failure ends as a single successful
\* attempt could: with success, or with the service failure that hit its
\* last attempt, never with an error its own earlier effect brought about.
C18_RetryAsSingleAttempt ==
    (/\ call.pc = "done" /\ call.backend = "gcs"
     /\ call.op \in {"write", "delete"}
     /\ call.lost)
        => \/ call.result.kind = "Ok"
           \/ /\ call.result.kind = "Err"
              /\ call.result.err.cause \in GcsFaults

OnHttp == call.backend = "web" /\ call.scheme \in HttpSchemes

\* C19: a read of a web identifier that the server answers with 404 returns
\* NotFound: not the body of the answer, not an error.
C19_Web404IsNotFound ==
    (call.pc = "done" /\ OnHttp /\ call.op = "read" /\ call.status = "404")
        => call.result = ResOk(None)

\* C20: on the web backend an exists or read that the server answers with a
\* 5xx status counts as a failed attempt: it is tried again while the
\* policy allows, and a call that ends on such an answer returns an error,
\* not false and not bytes.
C20_Web5xxRetried ==
    (/\ call.pc \in {"attempt", "done", "panicked"} /\ OnHttp
     /\ call.op \in {"exists", "read"} /\ call.status = "500")
        => /\ call.fails = call.invoked
           /\ call.pc # "attempt" =>
                  /\ call.pc = "done"
                  /\ call.result.kind = "Err"
                  /\ call.invoked = call.policy + 1

CodecFailed == call.result.kind = "Err" /\ call.result.err.type = "CompressionError"

\* C21: a codec failure never repeats a backend operation.  A write
\* compresses once, before the first attempt: a compression failure ends
\* the call with CompressionError and no request, and every attempt sends
\* the same compressed body.  A read decompresses once, after the retry
\* loop has returned: a decompression failure ends the call with
\* CompressionError and is not counted as a failed attempt.
C21_CodecOutsideRetry ==
    (InFlight /\ call.backend \in {"gcs", "web"})
        => /\ call.coded <= 1
           /\ (call.op = "write" /\ call.backend = "gcs")
                  => /\ call.pc = "attempt"
                        => /\ call.coded = 1
                           /\ call.payload = CompressOpt(call.body, call.comp).v
                     /\ (call.pc = "done" /\ CodecFailed)
                        => call.coded = 1 /\ call.invoked = 0 /\ call.bcalls = 0
           /\ call.op = "read"
                  => /\ call.coded = 1 => call.pc \in {"done", "panicked"}
                     /\ (call.pc = "done" /\ CodecFailed)
                        => call.coded = 1 /\ call.invoked = call.fails + 1

\* a read whose download succeeded on a retry and then failed to decode
C21_Witness ==
    /\ call.pc = "done" /\ call.backend = "gcs" /\ call.op = "read"
    /\ CodecFailed
    /\ call.coded = 1
    /\ call.fails = 1 /\ call.invoked = 2
    /\ call.retriesLeft > 0

\* C22: every retried call terminates: a call that is in its retry loop
\* leaves it, and a call whose attempts all failed, one more than the
\* policy allows retries, has returned the last error.
C22_RetriedCallTerminates ==
    /\ (call.pc \in {"attempt", "download"}) ~> (call.pc \in {"done", "panicked"})
    /\ []((call.pc = "done" /\ call.invoked > 0 /\ call.fails = call.invoked)
            => /\ call.fails = call.policy + 1
               /\ call.result = ResErr(call.lastErr))

\* an existence check that failed on every attempt the policy allowed and
\* returned the last error
C22_Witness ==
    /\ call.pc = "done" /\ call.op = "exists"
    /\ call.policy = MaxRetries
    /\ call.fails = MaxRetries + 1
    /\ call.invoked = MaxRetries + 1
    /\ call.result = ResErr(call.lastErr)

\* C23: a write on a prefix-type object-store address is turned down with
\* an invalid-path error before the body is compressed and before any
\* request to the store, and the store is left as it was.
C23_PrefixWriteRejected ==
    /\ []((InFlight /\ OnPrefix /\ call.op = "write")
            => /\ call.pc = "done"
               /\ call.result = ResErr(InvalidPath)
               /\ call.coded = 0
               /\ call.invoked = 0
               /\ call.bcalls = 0)
    /\ [][(call'.backend = "gcs" /\ call'.file.trailing_slash /\ call'.op = "write")
            => store' = store]_vars

\* a write with gzip on a prefix address, turned down
C23_Witness ==
    /\ call.pc = "done" /\ OnPrefix /\ call.op = "write"
    /\ call.comp = Gzip
    /\ call.result = ResErr(InvalidPath)
    /\ call.coded = 0

\* the listing of the store for the list call: the keys of the objects
\* under the prefix, in the store's order
BackendListing ==
    LET Listed(k) == k \in UnderPrefix
    IN  SelectSeq(KeyOrder, Listed)

\* C24: each entry a list on an object-store address returns is the address
\* of the listed object: for the object of bucket b with the stored name m
\* it is gs://b/m, which reads as a prefix-type address exactly when m ends
\* in a separator; the entries are as many as the objects of the store's
\* listing and in the same order.
C24_ListEntriesRendered ==
    (/\ call.pc = "done" /\ call.op = "list" /\ call.backend = "gcs"
     /\ call.result.kind = "Ok")
        => LET v == call.result.val
           IN  /\ Len(v) = Len(BackendListing)
               /\ \A i \in 1..Len(v) :
                      LET b == BackendListing[i][1]
                          m == BackendListing[i][2]
                      IN  /\ v[i] = GsPrefix \o b \o <<Slash>> \o m
                          /\ GcsFileNew(v[i]).ok
                          /\ GcsFileNew(v[i]).trailing_slash = EndsWith(m, <<Slash>>)

\* a listing of three objects, one of them stored under a name that ends
\* in a separator
C24_Witness ==
    /\ call.pc = "done" /\ call.op = "list" /\ call.backend = "gcs"
    /\ call.result.kind = "Ok"
    /\ Len(call.result.val) = 3
    /\ \E i \in 1..3 : EndsWith(call.result.val[i], <<Slash>>)
    /\ \E i \in 1..3 : ~EndsWith(call.result.val[i], <<Slash>>)

\* the fields of a parsed address f of the identifier id are well formed
WellFormed(f, id) ==
    /\ f.bucket # <<>>
    /\ \A i \in 1..Len(f.bucket) : f.bucket[i] # Slash
    /\ f.name # <<>>
    /\ Head(f.name) # Slash
    /\ f.trailing_slash <=> EndsWith(id, <<Slash>>)

C26_ReadRacingDelete ==
    (/\ call.pc = "done" /\ call.backend = "gcs" /\ call.op = "read"
     /\ ~call.file.trailing_slash
     /\ ~call.text
     /\ ~call.faulted
     /\ call.fails <= call.policy)
        => \/ call.result = ResOk(None)
           \/ /\ call.before # Absent
              /\ call.result = Decoded(Good(Some(call.before)), call.comp)

\* a read that found the object, lost it to another caller's delete before
\* the download, tried again and returned NotFound
C26_Witness ==
    /\ call.pc = "done" /\ call.backend = "gcs" /\ call.op = "read"
    /\ ~call.text /\ ~call.faulted
    /\ call.raced
    /\ call.before # Absent
    /\ call.fails = 1 /\ call.invoked = 2
    /\ call.lastErr = StorageAccessError("NotFound")
    /\ call.check = "absent"
    /\ call.result = ResOk(None)

====
